---- MODULE Spec2Model ----
(***************************************************************************)
(* A model of python/custom_model.py: a Keras model with a customised      *)
(* train_step and test_step, a sigmoid layer, a clipped binary             *)
(* cross-entropy loss, a per-batch logging callback and the __main__       *)
(* driver that fits and evaluates the model on random data.                *)
(*                                                                         *)
(* Numbers.  Probabilities, labels and epsilon live on a fixed-point grid  *)
(* on which Scale units are 1.0 and Eps units are the loss's epsilon.      *)
(* Features, the weight w and the bias b are whole numbers: w stands for   *)
(* the (input_dim, units) matrix and one feature value for one row of x.   *)
(* The sigmoid is its saturating piecewise-linear quantisation, the        *)
(* logarithm is the floor of the base-2 logarithm, a gradient is quantised *)
(* to its sign and one optimizer step moves a parameter by one unit.       *)
(***************************************************************************)
EXTENDS Integers, Sequences, FiniteSets, TLC

\* ------------------------------------------------------------- bounds
\* Grid units per 1.0.
Scale == 4
\* Rows of a well-formed batch an API caller hands to train_step / test_step.
MaxRows == 1
\* train_step / test_step / on_batch_end calls an API caller makes.
MaxSteps == 2
\* Rows of the tensors SimpleLoss is called with directly.
MaxLossRows == 2
\* Candidate output streams of the seeded random generator.
NumStreams == 3

\* -------------------------------------------------- program constants
Eps == 1
InputDim == 32
Units == 1
NumSamples == 1000
BatchSize == 256
Epochs == 3
NumTestSamples == 10000
TestBatchSize == 512

\* ------------------------------------------------------------ helpers
Max(a, b) == IF a >= b THEN a ELSE b
Min(a, b) == IF a <= b THEN a ELSE b
Sgn(a) == IF a > 0 THEN 1 ELSE IF a < 0 THEN -1 ELSE 0

\* V[1] + ... + V[n], counted: the positive parts less the negative parts.
Sum(n, V) ==
    Cardinality(UNION {{<<i, k>> : k \in 1..V[i]} : i \in 1..n})
    - Cardinality(UNION {{<<i, k>> : k \in 1..(0 - V[i])} : i \in 1..n})

\* A tensor of shape (Len(rows), dim); name is the driver variable that
\* holds it ("arg" for a tensor an API caller passes in).
Tensor(name, dim, rows) == [name |-> name, dim |-> dim, rows |-> rows]

\* Element i of a tensor broadcast to n rows (a tensor of one row repeats).
Bc(rows, i) == IF Len(rows) = 1 THEN rows[1] ELSE rows[i]
BroadcastOK(a, b) == Len(a) = Len(b) \/ Len(a) = 1 \/ Len(b) = 1

\* ------------------------------------------------- SimpleLayer.call
\* tf.sigmoid on the grid: monotone, 0.5 at 0, saturating at 0.0 and 1.0.
Sigmoid(z) == Max(0, Min(Scale, z + Scale \div 2))

\* tf.sigmoid(tf.matmul(inputs, self.w) + self.b), row by row.
SimpleLayerCall(inputs, lw, lb) ==
    [i \in 1..Len(inputs) |-> Sigmoid(inputs[i] * lw + lb)]

\* ---------------------------------------------------- SimpleLoss.call
\* A clip that forgets the upper bound.
ClipByValueNoUpper(t, lo, hi) == Max(t, lo)

\* tf.clip_by_value(t, lo, hi)
ClipByValue(t, lo, hi) == Max(lo, Min(t, hi))

\* tf.math.log of a positive grid value a (a / Scale as a real), as
\* floor(log2(a / Scale)): 0 on [1.0, 2.0), negative below 1.0.
RECURSIVE Log(_)
Log(a) == IF a >= Scale
          THEN (IF a >= 2 * Scale THEN 1 + Log(a \div 2) ELSE 0)
          ELSE Log(2 * a) - 1

\* The two logarithm arguments of one element, after the clip.
LogArgs(p) ==
    LET c == ClipByValue(p, Eps, Scale - Eps)
    IN  <<c + Eps, Scale - c + Eps>>

\* One element of bce; the logarithm of a non-positive argument is -inf or
\* NaN, which the model keeps apart as "not finite".
BceTerm(yt, p) ==
    LET a == LogArgs(p)
    IN  IF a[1] <= 0 \/ a[2] <= 0
        THEN [finite |-> FALSE, v |-> 0, args |-> a]
        ELSE [finite |-> TRUE,
              v |-> (0 - yt) * Log(a[1]) - (Scale - yt) * Log(a[2]),
              args |-> a]

\* SimpleLoss.call(y_true, y_pred): the elements of bce and tf.reduce_mean
\* of them.
SimpleLossCall(y_true, y_pred) ==
    [finite |-> \A i \in 1..Max(Len(y_true), Len(y_pred)) :
                   BceTerm(Bc(y_true, i), Bc(y_pred, i)).finite,
     terms |-> [i \in 1..Max(Len(y_true), Len(y_pred)) |->
                   BceTerm(Bc(y_true, i), Bc(y_pred, i))],
     value |-> IF \A i \in 1..Max(Len(y_true), Len(y_pred)) :
                     BceTerm(Bc(y_true, i), Bc(y_pred, i)).finite
               THEN Sum(Max(Len(y_true), Len(y_pred)),
                        [i \in 1..Max(Len(y_true), Len(y_pred)) |->
                            BceTerm(Bc(y_true, i), Bc(y_pred, i)).v])
                    \div Max(Len(y_true), Len(y_pred))
               ELSE 0]

\* tf.round on the grid: the nearest whole number, halves to the even one.
Round(v) ==
    LET q == v \div Scale
        r == v % Scale
    IN  IF 2 * r < Scale THEN q * Scale
        ELSE IF 2 * r > Scale THEN (q + 1) * Scale
        ELSE IF q % 2 = 0 THEN q * Scale ELSE (q + 1) * Scale

\* ------------------------------------------------------------ metrics
\* A metric object of self.metrics: its name, the class that decides what
\* update_state does, and its accumulators.  "Mean" is the loss tracker,
\* "BinaryAccuracy" the compiled metric, "Validating" a metric whose
\* update_state raises on a label that is not a class of a binary problem
\* (a confusion-matrix metric with two classes).
Metric(name, kind) == [name |-> name, kind |-> kind, total |-> 0, count |-> 0]
LossTracker == Metric("loss", "Mean")
BinaryAccuracy == Metric("binary_accuracy", "BinaryAccuracy")
ValidatingMetric == Metric("mean_io_u", "Validating")

\* metric.reset_state()
ResetState(m) == [m EXCEPT !.total = 0, !.count = 0]

\* Rows on which the thresholded prediction equals the label.
Matches(yv, p) ==
    LET n == Max(Len(yv), Len(p))
    IN  Cardinality({i \in 1..n :
            Bc(yv, i) = (IF 2 * Bc(p, i) > Scale THEN Scale ELSE 0)})

\* Whether metric.update_state(y, y_pred) raises.
PairRaises(m, yv, p) ==
    \/ ~BroadcastOK(yv, p)
    \/ m.kind = "Validating" /\ \E i \in 1..Len(yv) : yv[i] \notin {0, Scale}

\* metric.update_state(loss) of a Mean.
UpdateStateLoss(m, v) == [m EXCEPT !.total = @ + v, !.count = @ + 1]

\* metric.update_state(y, y_pred) of an accuracy metric.
UpdateStatePair(m, yv, p) ==
    [m EXCEPT !.total = @ + Matches(yv, p),
              !.count = @ + Max(Len(yv), Len(p))]

\* metric.result(): total / count, 0 before any update; an accuracy is
\* given on the grid.
Result(m) ==
    IF m.count = 0 THEN 0
    ELSE IF m.kind = "Mean" THEN m.total \div m.count
    ELSE (m.total * Scale) \div m.count

\* A mapping (a Python dict) as a set of <<key, value>> pairs.
Keys(map) == {kv[1] : kv \in map}
DictSet(map, k, v) == {kv \in map : kv[1] # k} \cup {<<k, v>>}
DictGet(map, k) == (CHOOSE kv \in map : kv[1] = k)[2]

\* {m.name: m.result() for m in self.metrics}
RECURSIVE ResultsFrom(_, _, _)
ResultsFrom(ms, i, map) ==
    IF i > Len(ms) THEN map
    ELSE ResultsFrom(ms, i + 1, DictSet(map, ms[i].name, Result(ms[i])))
MetricResults(ms) == ResultsFrom(ms, 1, {})

\* ---------------------------------------------------------- gradients
\* The sign of d bce_i / d z_i, z the pre-activation of row i: zero where
\* the sigmoid or the clip is saturated.
RowGrad(yt, p) ==
    IF p < Eps \/ p > Scale - Eps THEN 0
    ELSE Sgn((Scale - yt) * (p + Eps) - yt * (Scale - p + Eps))

\* tape.gradient(loss, [w, b]), each quantised to its sign: the sum over
\* the rows of d bce_i / d z_i times the row's feature (for w), times 1
\* (for b).
TapeGradient(xs, yv, p) ==
    <<Sgn(Sum(Len(p), [i \in 1..Len(p) |-> RowGrad(Bc(yv, i), p[i]) * xs[i]])),
      Sgn(Sum(Len(p), [i \in 1..Len(p) |-> RowGrad(Bc(yv, i), p[i])]))>>

\* -------------------------------------------------------------- state
VARIABLES
    w, b,          \* SimpleLayer.w, SimpleLayer.b
    metrics,       \* self.metrics, a sequence of metric objects
    pc,            \* position inside the running call, "idle" between calls
    call,          \* the running (or last) call: "train", "test", "callback"
    data,          \* the batch of the running step: [x, y], two tensors
    y_pred, loss, grads,   \* locals of the running step
    mi,            \* index of the metric loop
    ret,           \* the mapping the last step returned
    err,           \* the exception that ended the call, "none" without one
    out,           \* standard output, a sequence of printed lines
    snap,          \* w, b, metrics and the lines printed when the call began
    phases,        \* the statements the running step has executed
    fed,           \* the arguments of each update_state of the running step
                   \* (of on_batch_end, for a callback)
    nsteps,        \* calls made so far
    applies,       \* optimizer applications made so far
    dpc,           \* position of __main__, "api" when there is no driver
    rng,           \* the output stream the seeded generator produces
    x, y, ds,      \* the training tensors and the batched training dataset
    x_test, y_test, test_ds,   \* the same of the test set
    epoch, bi,     \* the epoch and the batch fit / evaluate is at
    stepLog,       \* the batches fit and evaluate handed to a step
    lossIn, lossOut   \* a direct call of SimpleLoss: its arguments, its result

modelVars == <<w, b, metrics>>
frameVars == <<pc, call, data, y_pred, loss, grads, mi, ret, err>>
ghostVars == <<snap, phases, fed, nsteps, applies>>
dataVars == <<rng, x, y, ds, x_test, y_test, test_ds>>
lossVars == <<lossIn, lossOut>>
loopVars == <<epoch, bi, stepLog>>
drvVars == <<dpc, dataVars, lossVars, loopVars>>
vars == <<modelVars, frameVars, out, ghostVars, drvVars>>

\* The model state a call starts from.
Snapshot == [w |-> w, b |-> b, metrics |-> metrics, lines |-> Len(out)]

Raise(kind) == pc' = "raised" /\ err' = kind

\* ------------------------------------------------ CustomModel.train_step
\* x, y = data
TrainStepBegin(d) ==
    /\ pc = "idle" /\ err = "none"
    /\ pc' = "t_forward" /\ call' = "train"
    /\ data' = d
    /\ y_pred' = <<>> /\ loss' = 0 /\ grads' = <<0, 0>> /\ mi' = 1
    /\ snap' = Snapshot
    /\ phases' = <<>> /\ fed' = <<>>
    /\ nsteps' = nsteps + 1
    /\ UNCHANGED <<modelVars, ret, err, out, applies, dataVars, lossVars>>

\* y_pred = self(x, training=True), recorded by the tape
TrainForward ==
    /\ pc = "t_forward"
    /\ IF data.x.dim # InputDim
       THEN Raise("ShapeMismatch") /\ UNCHANGED <<y_pred, phases>>
       ELSE /\ y_pred' = SimpleLayerCall(data.x.rows, w, b)
            /\ phases' = Append(phases, "forward")
            /\ pc' = "t_loss" /\ UNCHANGED err
    /\ UNCHANGED <<modelVars, call, data, loss, grads, mi, ret, out,
                   snap, fed, nsteps, applies, dataVars, lossVars, loopVars, dpc>>

\* train_step with the metric loop moved before the backward pass.
TrainLoss_MetricsFirst ==
    /\ pc = "t_loss"
    /\ IF ~BroadcastOK(data.y.rows, y_pred)
       THEN Raise("ShapeMismatch") /\ UNCHANGED <<loss, phases>>
       ELSE /\ loss' = SimpleLossCall(data.y.rows, y_pred).value
            /\ phases' = Append(phases, "loss")
            /\ pc' = "t_metrics" /\ UNCHANGED err
    /\ UNCHANGED <<modelVars, call, data, y_pred, grads, mi, ret, out,
                   snap, fed, nsteps, applies, dataVars, lossVars, loopVars, dpc>>

\* loss = self.compute_loss(y=y, y_pred=y_pred)
TrainLoss ==
    /\ pc = "t_loss"
    /\ IF ~BroadcastOK(data.y.rows, y_pred)
       THEN Raise("ShapeMismatch") /\ UNCHANGED <<loss, phases>>
       ELSE /\ loss' = SimpleLossCall(data.y.rows, y_pred).value
            /\ phases' = Append(phases, "loss")
            /\ pc' = "t_gradient" /\ UNCHANGED err
    /\ UNCHANGED <<modelVars, call, data, y_pred, grads, mi, ret, out,
                   snap, fed, nsteps, applies, dataVars, lossVars, loopVars, dpc>>

\* trainable_vars = self.trainable_variables
\* gradients = tape.gradient(loss, trainable_vars)
TrainGradient ==
    /\ pc = "t_gradient"
    /\ grads' = TapeGradient(data.x.rows, data.y.rows, y_pred)
    /\ phases' = Append(phases, "gradient")
    /\ pc' = "t_apply"
    /\ UNCHANGED <<modelVars, call, data, y_pred, loss, mi, ret, err, out,
                   snap, fed, nsteps, applies, dataVars, lossVars, loopVars, dpc>>

\* train_step with a second forward pass and loss after the update.
TrainApply_Reforward ==
    /\ pc = "t_apply"
    /\ w' = w - grads[1]
    /\ b' = b - grads[2]
    /\ y_pred' = SimpleLayerCall(data.x.rows, w', b')
    /\ loss' = SimpleLossCall(data.y.rows, y_pred').value
    /\ phases' = Append(phases, "apply")
    /\ applies' = applies + 1
    /\ pc' = "t_metrics"
    /\ UNCHANGED <<metrics, call, data, grads, mi, ret, err,
                   out, snap, fed, nsteps, dataVars, lossVars, loopVars, dpc>>

\* self.optimizer.apply(gradients, trainable_vars): one SGD step
TrainApply ==
    /\ pc = "t_apply"
    /\ w' = w - grads[1]
    /\ b' = b - grads[2]
    /\ phases' = Append(phases, "apply")
    /\ applies' = applies + 1
    /\ pc' = "t_metrics"
    /\ UNCHANGED <<metrics, call, data, y_pred, loss, grads, mi, ret, err,
                   out, snap, fed, nsteps, dataVars, lossVars, loopVars, dpc>>

\* The metric loop without the test of the metric's name.
MetricIteration_LossToAll ==
    LET m == metrics[mi]
    IN  /\ metrics' = [metrics EXCEPT ![mi] = UpdateStateLoss(m, loss)]
        /\ fed' = Append(fed, [name |-> m.name, arg |-> <<loss>>])
        /\ phases' = Append(phases, "metric")
        /\ mi' = mi + 1
        /\ UNCHANGED <<pc, err>>

\* One iteration of
\*   for metric in self.metrics:
\*       if metric.name == "loss": metric.update_state(loss)
\*       else: metric.update_state(y, y_pred)
MetricIteration ==
    LET m == metrics[mi]
    IN  IF m.name = "loss"
        THEN /\ metrics' = [metrics EXCEPT ![mi] = UpdateStateLoss(m, loss)]
             /\ fed' = Append(fed, [name |-> m.name, arg |-> <<loss>>])
             /\ phases' = Append(phases, "metric")
             /\ mi' = mi + 1
             /\ UNCHANGED <<pc, err>>
        ELSE IF PairRaises(m, data.y.rows, y_pred)
        THEN Raise("MetricError") /\ UNCHANGED <<metrics, fed, phases, mi>>
        ELSE /\ metrics' = [metrics EXCEPT
                              ![mi] = UpdateStatePair(m, data.y.rows, y_pred)]
             /\ fed' = Append(fed, [name |-> m.name,
                                    arg |-> <<data.y.rows, y_pred>>])
             /\ phases' = Append(phases, "metric")
             /\ mi' = mi + 1
             /\ UNCHANGED <<pc, err>>

TrainMetric ==
    /\ pc = "t_metrics" /\ mi <= Len(metrics)
    /\ MetricIteration
    /\ UNCHANGED <<w, b, call, data, y_pred, loss, grads, ret, out, snap,
                   nsteps, applies, dataVars, lossVars, loopVars, dpc>>

\* return {m.name: m.result() for m in self.metrics}
TrainReturn ==
    /\ pc = "t_metrics" /\ mi > Len(metrics)
    /\ ret' = MetricResults(metrics)
    /\ phases' = Append(phases, "return")
    /\ pc' = "idle"
    /\ UNCHANGED <<modelVars, call, data, y_pred, loss, grads, mi, err, out,
                   snap, fed, nsteps, applies, dataVars, lossVars, loopVars, dpc>>

\* ------------------------------------------------- CustomModel.test_step
\* print("\nEvalaution starts..."); x, y = data
TestStepBegin(d) ==
    /\ pc = "idle" /\ err = "none"
    /\ pc' = "e_forward" /\ call' = "test"
    /\ out' = Append(out, <<"Evalaution starts...">>)
    /\ data' = d
    /\ y_pred' = <<>> /\ loss' = 0 /\ grads' = <<0, 0>> /\ mi' = 1
    /\ snap' = Snapshot
    /\ phases' = <<>> /\ fed' = <<>>
    /\ nsteps' = nsteps + 1
    /\ UNCHANGED <<modelVars, ret, err, applies, dataVars, lossVars>>

\* y_pred = self(x, training=False)
TestForward ==
    /\ pc = "e_forward"
    /\ IF data.x.dim # InputDim
       THEN Raise("ShapeMismatch") /\ UNCHANGED <<y_pred, phases>>
       ELSE /\ y_pred' = SimpleLayerCall(data.x.rows, w, b)
            /\ phases' = Append(phases, "forward")
            /\ pc' = "e_loss" /\ UNCHANGED err
    /\ UNCHANGED <<modelVars, call, data, loss, grads, mi, ret, out,
                   snap, fed, nsteps, applies, dataVars, lossVars, loopVars, dpc>>

\* test_step falling into train_step's backward pass.
TestLoss_ThenBackward ==
    /\ pc = "e_loss"
    /\ IF ~BroadcastOK(data.y.rows, y_pred)
       THEN Raise("ShapeMismatch") /\ UNCHANGED <<loss, phases>>
       ELSE /\ loss' = SimpleLossCall(data.y.rows, y_pred).value
            /\ phases' = Append(phases, "loss")
            /\ pc' = "t_gradient" /\ UNCHANGED err
    /\ UNCHANGED <<modelVars, call, data, y_pred, grads, mi, ret, out,
                   snap, fed, nsteps, applies, dataVars, lossVars, loopVars, dpc>>

\* loss = self.compute_loss(y=y, y_pred=y_pred)
TestLoss ==
    /\ pc = "e_loss"
    /\ IF ~BroadcastOK(data.y.rows, y_pred)
       THEN Raise("ShapeMismatch") /\ UNCHANGED <<loss, phases>>
       ELSE /\ loss' = SimpleLossCall(data.y.rows, y_pred).value
            /\ phases' = Append(phases, "loss")
            /\ pc' = "e_metrics" /\ UNCHANGED err
    /\ UNCHANGED <<modelVars, call, data, y_pred, grads, mi, ret, out,
                   snap, fed, nsteps, applies, dataVars, lossVars, loopVars, dpc>>

TestMetric ==
    /\ pc = "e_metrics" /\ mi <= Len(metrics)
    /\ MetricIteration
    /\ UNCHANGED <<w, b, call, data, y_pred, loss, grads, ret, out, snap,
                   nsteps, applies, dataVars, lossVars, loopVars, dpc>>

\* return {m.name: m.result() for m in self.metrics}
TestReturn ==
    /\ pc = "e_metrics" /\ mi > Len(metrics)
    /\ ret' = MetricResults(metrics)
    /\ phases' = Append(phases, "return")
    /\ pc' = "idle"
    /\ UNCHANGED <<modelVars, call, data, y_pred, loss, grads, mi, err, out,
                   snap, fed, nsteps, applies, dataVars, lossVars, loopVars, dpc>>

\* ------------------------------------------- SimpleCallback.on_batch_end
\* logs is None (the default) or a mapping.
NoLogs == [given |-> FALSE, map |-> {}]
Logs(map) == [given |-> TRUE, map |-> map]

\* print("\nEnd of batch = ", batch, ", loss = ", logs['loss'])
OnBatchEnd(batch, logs) ==
    /\ pc = "idle" /\ err = "none"
    /\ call' = "callback"
    /\ snap' = Snapshot
    /\ phases' = <<>>
    /\ fed' = <<[name |-> "on_batch_end", arg |-> <<batch, logs>>]>>
    /\ nsteps' = nsteps + 1
    /\ IF ~logs.given
       THEN Raise("TypeError") /\ UNCHANGED out
       ELSE IF "loss" \notin Keys(logs.map)
       THEN Raise("KeyError") /\ UNCHANGED out
       ELSE /\ out' = Append(out, <<"End of batch = ", batch, ", loss = ",
                                    DictGet(logs.map, "loss")>>)
            /\ UNCHANGED <<pc, err>>
    /\ UNCHANGED <<modelVars, data, y_pred, loss, grads, mi, ret, applies,
                   dataVars, lossVars>>

\* ------------------------------------------------------- API callers
\* The batches a caller hands to a step.  A well-formed batch has up to
\* MaxRows rows, each a feature of either sign with a label of either class
\* (in row-kind order: no step depends on the order of the rows).  The
\* others: a label that is no class of a binary problem, features with the
\* wrong trailing dimension, labels whose row count does not broadcast
\* against the predictions, a single label row that does broadcast.
RowKinds == <<[x |-> -1, y |-> 0], [x |-> -1, y |-> Scale],
              [x |-> 1, y |-> 0], [x |-> 1, y |-> Scale]>>

BatchOf(ks) ==
    [x |-> Tensor("arg", InputDim, [i \in 1..Len(ks) |-> RowKinds[ks[i]].x]),
     y |-> Tensor("arg", Units, [i \in 1..Len(ks) |-> RowKinds[ks[i]].y])]

WellFormed ==
    UNION {{BatchOf(ks) :
               ks \in {f \in [1..n -> 1..Len(RowKinds)] :
                          \A i \in 1..(n - 1) : f[i] <= f[i + 1]}} :
           n \in 1..MaxRows}

OtherBatches ==
    {[x |-> Tensor("arg", InputDim, <<1, -1>>),
      y |-> Tensor("arg", Units, <<2 * Scale, 0>>)],
     [x |-> Tensor("arg", InputDim + 1, <<1>>), y |-> Tensor("arg", Units, <<Scale>>)],
     [x |-> Tensor("arg", InputDim, <<1, -1>>),
      y |-> Tensor("arg", Units, <<Scale, 0, 0>>)],
     [x |-> Tensor("arg", InputDim, <<1, -1>>), y |-> Tensor("arg", Units, <<Scale>>)]}

Batches == WellFormed \cup OtherBatches

\* self.metrics after compile, as the caller configured it.
MetricSets ==
    {<<LossTracker, BinaryAccuracy>>,
     <<LossTracker, BinaryAccuracy, ValidatingMetric>>}

\* glorot_uniform draws of w; b starts at zeros.
W0Values == {-1, 0, 1}

ApiTrainStep ==
    /\ dpc = "api" /\ nsteps < MaxSteps
    /\ \E d \in Batches : TrainStepBegin(d)
    /\ UNCHANGED <<dpc, loopVars>>

ApiTestStep ==
    /\ dpc = "api" /\ nsteps < MaxSteps
    /\ \E d \in Batches : TestStepBegin(d)
    /\ UNCHANGED <<dpc, loopVars>>

ApiOnBatchEnd ==
    /\ dpc = "api" /\ nsteps < MaxSteps
    /\ \E batch \in 0..1 :
       \E logs \in {Logs(ret), Logs({<<"binary_accuracy", Scale>>}), NoLogs} :
           OnBatchEnd(batch, logs)
    /\ UNCHANGED <<dpc, loopVars>>

NoTensor(name, dim) == Tensor(name, dim, <<>>)

FrameInit ==
    /\ pc = "idle" /\ call = "none"
    /\ data = [x |-> Tensor("arg", InputDim, <<>>), y |-> Tensor("arg", Units, <<>>)]
    /\ y_pred = <<>> /\ loss = 0 /\ grads = <<0, 0>> /\ mi = 1
    /\ ret = {} /\ err = "none" /\ out = <<>>
    /\ snap = Snapshot
    /\ phases = <<>> /\ fed = <<>> /\ nsteps = 0 /\ applies = 0

NoData ==
    /\ x = NoTensor("x", InputDim) /\ y = NoTensor("y", Units) /\ ds = <<>>
    /\ x_test = NoTensor("x_test", InputDim)
    /\ y_test = NoTensor("y_test", Units) /\ test_ds = <<>>
    /\ epoch = 0 /\ bi = 0 /\ stepLog = <<>>

NoResult == [finite |-> TRUE, terms |-> <<>>, value |-> 0]

NoLossCall ==
    /\ lossIn = [y_true |-> <<>>, y_pred |-> <<>>]
    /\ lossOut = [done |-> FALSE, result |-> NoResult]

\* A compiled model in the hands of an API caller.
Init ==
    /\ w \in W0Values /\ b = 0
    /\ metrics \in MetricSets
    /\ FrameInit
    /\ dpc = "api" /\ rng = 0 /\ NoData /\ NoLossCall

\* ------------------------------------------------------------ __main__
\* What the generator seeded with 43 returns is not in the program: the
\* model takes it to be one of NumStreams streams.  Draw k of the run is a
\* tensor whose element i is given below; a normal sample lies between -2.0
\* and 2.0 in quarters, a uniform sample in [0, 1) in quarters.
Mix(s, k, i) == i * (2 * s + 1) + 3 * k + s
RandomNormal(s, k, i) == (((Mix(s, k, i) % 17) - 8) * Scale) \div 4
RandomUniform(s, k, i) == ((Mix(s, k, i) % 4) * Scale) \div 4

\* A feature row as a whole number.
Whole(v) == Round(v) \div Scale

\* batch(k, drop_remainder=True)
BatchDropRemainder(a, c, k) ==
    [j \in 1..(Len(a.rows) \div k) |->
        [x |-> Tensor(a.name, a.dim, SubSeq(a.rows, (j - 1) * k + 1, j * k)),
         y |-> Tensor(c.name, c.dim, SubSeq(c.rows, (j - 1) * k + 1, j * k))]]

\* tf.data.Dataset.from_tensor_slices((a, c)).batch(k): the slices of k rows,
\* the last one holding the rest.
Batch(a, c, k) ==
    [j \in 1..((Len(a.rows) + k - 1) \div k) |->
        [x |-> Tensor(a.name, a.dim,
                      SubSeq(a.rows, (j - 1) * k + 1, Min(j * k, Len(a.rows)))),
         y |-> Tensor(c.name, c.dim,
                      SubSeq(c.rows, (j - 1) * k + 1, Min(j * k, Len(c.rows))))]]

RunWithCallback == FALSE
Callbacks == IF RunWithCallback THEN <<"SimpleCallback">> ELSE <<>>

StepRecord(kind, d) ==
    [call |-> kind, rows |-> Len(d.x.rows), x |-> d.x.name, y |-> d.y.name,
     epoch |-> epoch]

\* tf.random.set_seed(43); random.seed(43)
DrvSeed ==
    /\ dpc = "start" /\ dpc' = "seeded"
    /\ UNCHANGED <<modelVars, frameVars, out, ghostVars, dataVars, lossVars, loopVars>>

\* x = tf.random.normal([1000, 32]); y = tf.round(tf.random.normal([1000, 1]))
DrvTrainData ==
    /\ dpc = "seeded" /\ dpc' = "train_data"
    /\ x' = Tensor("x", InputDim,
                   [i \in 1..NumSamples |-> Whole(RandomNormal(rng, 1, i))])
    /\ y' = Tensor("y", Units,
                   [i \in 1..NumSamples |-> Round(RandomNormal(rng, 2, i))])
    /\ UNCHANGED <<modelVars, frameVars, out, ghostVars, lossVars, rng, ds, x_test,
                   y_test, test_ds, loopVars>>

\* ds = tf.data.Dataset.from_tensor_slices((x, y)); ds = ds.batch(256)
DrvTrainDs ==
    /\ dpc = "train_data" /\ dpc' = "train_ds"
    /\ ds' = Batch(x, y, BatchSize)
    /\ UNCHANGED <<modelVars, frameVars, out, ghostVars, lossVars, rng, x, y, x_test,
                   y_test, test_ds, loopVars>>

\* outputs = SimpleLayer(1)(inputs) builds w (glorot_uniform) and b (zeros);
\* model.compile(loss=SimpleLoss(), optimizer=SGD(), metrics=[BinaryAccuracy()])
DrvModel ==
    /\ dpc = "train_ds" /\ dpc' = "compiled"
    /\ w' = (rng % 3) - 1 /\ b' = 0
    /\ metrics' = <<LossTracker, BinaryAccuracy>>
    /\ UNCHANGED <<frameVars, out, ghostVars, dataVars, lossVars, loopVars>>

\* model.fit(ds, epochs=3[, callbacks=[SimpleCallback()]]) begins its first
\* epoch: the metrics are reset when an epoch begins.
DrvFit ==
    /\ dpc = "compiled" /\ dpc' = "fit"
    /\ epoch' = 1 /\ bi' = 1
    /\ metrics' = [i \in 1..Len(metrics) |-> ResetState(metrics[i])]
    /\ UNCHANGED <<w, b, frameVars, out, ghostVars, dataVars, lossVars, stepLog>>

\* fit hands the next batch of the epoch to train_step.
FitBatch ==
    /\ dpc = "fit" /\ dpc' = "fit_step"
    /\ TrainStepBegin(ds[bi])
    /\ stepLog' = Append(stepLog, StepRecord("train", ds[bi]))
    /\ UNCHANGED <<epoch, bi>>

\* train_step has returned: fit calls on_batch_end of every callback with
\* the returned mapping, and moves to the next batch, the next epoch or out.
FitBatchEnd ==
    /\ dpc = "fit_step" /\ pc = "idle" /\ err = "none"
    /\ IF Callbacks # <<>>
       THEN OnBatchEnd(bi - 1, Logs(ret))
       ELSE UNCHANGED <<modelVars, frameVars, out, ghostVars, dataVars, lossVars>>
    /\ IF bi < Len(ds)
       THEN bi' = bi + 1 /\ dpc' = "fit" /\ UNCHANGED epoch
       ELSE IF epoch < Epochs
       THEN bi' = 1 /\ epoch' = epoch + 1 /\ dpc' = "epoch_begin"
       ELSE dpc' = "fitted" /\ UNCHANGED <<epoch, bi>>
    /\ UNCHANGED stepLog

\* The next epoch begins: fit resets the metrics.
FitEpochBegin ==
    /\ dpc = "epoch_begin" /\ dpc' = "fit"
    /\ metrics' = [i \in 1..Len(metrics) |-> ResetState(metrics[i])]
    /\ UNCHANGED <<w, b, frameVars, out, ghostVars, dataVars, lossVars, loopVars>>

\* x_test = tf.random.uniform([10000, 32])
\* y_test = tf.round(tf.random.uniform([10000, 1]))
DrvTestData ==
    /\ dpc = "fitted" /\ dpc' = "test_data"
    /\ x_test' = Tensor("x_test", InputDim,
                   [i \in 1..NumTestSamples |-> Whole(RandomUniform(rng, 3, i))])
    /\ y_test' = Tensor("y_test", Units,
                   [i \in 1..NumTestSamples |-> Round(RandomUniform(rng, 4, i))])
    /\ UNCHANGED <<modelVars, frameVars, out, ghostVars, lossVars, rng, x, y, ds,
                   test_ds, loopVars>>

\* test_ds = tf.data.Dataset.from_tensor_slices((x, y)).batch(512)
DrvTestDs ==
    /\ dpc = "test_data" /\ dpc' = "test_ds"
    /\ test_ds' = Batch(x, y, TestBatchSize)
    /\ UNCHANGED <<modelVars, frameVars, out, ghostVars, lossVars, rng, x, y, ds,
                   x_test, y_test, loopVars>>

\* model.evaluate(test_ds) begins: the metrics are reset.
DrvEvaluate ==
    /\ dpc = "test_ds" /\ dpc' = "evaluate"
    /\ bi' = 1
    /\ metrics' = [i \in 1..Len(metrics) |-> ResetState(metrics[i])]
    /\ UNCHANGED <<w, b, frameVars, out, ghostVars, dataVars, lossVars, epoch, stepLog>>

\* evaluate hands the next batch to test_step.
EvalBatch ==
    /\ dpc = "evaluate" /\ dpc' = "eval_step"
    /\ TestStepBegin(test_ds[bi])
    /\ stepLog' = Append(stepLog, StepRecord("test", test_ds[bi]))
    /\ UNCHANGED <<epoch, bi>>

\* test_step has returned: the next batch, or evaluate returns the mapping.
EvalBatchEnd ==
    /\ dpc = "eval_step" /\ pc = "idle" /\ err = "none"
    /\ IF bi < Len(test_ds)
       THEN bi' = bi + 1 /\ dpc' = "evaluate"
       ELSE dpc' = "done" /\ UNCHANGED bi
    /\ UNCHANGED <<modelVars, frameVars, out, ghostVars, dataVars, lossVars, epoch,
                   stepLog>>

\* The process before its first statement: no layer is built, nothing is
\* compiled.
DriverInit ==
    /\ w = 0 /\ b = 0 /\ metrics = <<>>
    /\ FrameInit
    /\ dpc = "start" /\ rng \in 1..NumStreams /\ NoData /\ NoLossCall

StepNext ==
    \/ TrainForward \/ TrainLoss \/ TrainGradient \/ TrainApply
    \/ TrainMetric \/ TrainReturn
    \/ TestForward \/ TestLoss \/ TestMetric \/ TestReturn

DriverNext ==
    \/ DrvSeed \/ DrvTrainData \/ DrvTrainDs \/ DrvModel \/ DrvFit
    \/ FitBatch \/ FitBatchEnd \/ FitEpochBegin
    \/ DrvTestData \/ DrvTestDs \/ DrvEvaluate \/ EvalBatch \/ EvalBatchEnd
    \/ StepNext

\* The script is one sequential process: at most one of its statements is
\* enabled, and it executes the statement that is.
DriverFairness ==
    /\ WF_vars(DrvSeed) /\ WF_vars(DrvTrainData) /\ WF_vars(DrvTrainDs)
    /\ WF_vars(DrvModel) /\ WF_vars(DrvFit) /\ WF_vars(FitBatch)
    /\ WF_vars(FitBatchEnd) /\ WF_vars(FitEpochBegin)
    /\ WF_vars(DrvTestData) /\ WF_vars(DrvTestDs) /\ WF_vars(DrvEvaluate)
    /\ WF_vars(EvalBatch) /\ WF_vars(EvalBatchEnd)
    /\ WF_vars(TrainForward) /\ WF_vars(TrainLoss) /\ WF_vars(TrainGradient)
    /\ WF_vars(TrainApply) /\ WF_vars(TrainMetric) /\ WF_vars(TrainReturn)
    /\ WF_vars(TestForward) /\ WF_vars(TestLoss) /\ WF_vars(TestMetric)
    /\ WF_vars(TestReturn)

DriverSpec == DriverInit /\ [][DriverNext]_vars /\ DriverFairness

\* ------------------------------------------- SimpleLoss called directly
\* The arguments of a direct call: labels inside [0, 1] and the whole
\* labels next to it, predictions inside [0, 1] and up to 0.5 outside it.
YTrueValues == (0..Scale) \cup {0 - Scale, 2 * Scale}
YPredValues == (0 - Scale \div 2)..(Scale + Scale \div 2)

LossInit ==
    /\ w = 0 /\ b = 0 /\ metrics = <<>>
    /\ FrameInit
    /\ dpc = "loss" /\ rng = 0 /\ NoData
    /\ \E n \in 1..MaxLossRows :
          lossIn \in [y_true : [1..n -> YTrueValues],
                      y_pred : [1..n -> YPredValues]]
    /\ lossOut = [done |-> FALSE, result |-> NoResult]

\* SimpleLoss()(y_true, y_pred)
LossCall ==
    /\ dpc = "loss" /\ ~lossOut.done
    /\ lossOut' = [done |-> TRUE,
                   result |-> SimpleLossCall(lossIn.y_true, lossIn.y_pred)]
    /\ UNCHANGED <<modelVars, frameVars, out, ghostVars, dpc, dataVars,
                   loopVars, lossIn>>

LossNext == LossCall

LossSpec == LossInit /\ [][LossNext]_vars

Next ==
    \/ ApiTrainStep \/ TrainForward \/ TrainLoss \/ TrainGradient
    \/ TrainApply \/ TrainMetric \/ TrainReturn
    \/ ApiTestStep \/ TestForward \/ TestLoss \/ TestMetric \/ TestReturn
    \/ ApiOnBatchEnd

Spec == Init /\ [][Next]_vars
\* ============================================================= claims
Names(ms) == {ms[i].name : i \in 1..Len(ms)}
Last(q) == q[Len(q)]
Returned(kind) == call = kind /\ pc = "idle" /\ phases # <<>> /\ Last(phases) = "return"

\* C1: test_step never changes the trainable parameters: while a test_step
\* runs, and when it has returned or raised, w and b are what they were when
\* it began, no gradient was computed and the optimizer was not applied;
\* only the metric accumulators and standard output differ.
C1_TestStepKeepsParameters ==
    call = "test" =>
        /\ w = snap.w /\ b = snap.b
        /\ grads = <<0, 0>>
        /\ \A i \in 1..Len(phases) : phases[i] \notin {"gradient", "apply"}
        /\ Len(metrics) = Len(snap.metrics)
        /\ \A i \in 1..Len(metrics) :
              /\ metrics[i].name = snap.metrics[i].name
              /\ metrics[i].kind = snap.metrics[i].kind
        /\ Len(out) = snap.lines + 1

\* A test_step has returned on a model that training had moved away from
\* its initial parameters, and it has updated the metrics.
C1_Witness ==
    /\ Returned("test") /\ applies > 0
    /\ <<w, b>> # <<0, 0>>
    /\ metrics # snap.metrics

\* C4: train_step runs forward, loss, gradient, optimizer application, then
\* the metric loop, then returns, each once: what it has executed is always
\* a prefix of that order, the parameters change only by the one optimizer
\* application, which follows the gradient, and no metric is updated before
\* the optimizer application.
C4_TrainStepPhaseOrder ==
    call = "train" =>
        LET core == <<"forward", "loss", "gradient", "apply">>
            n == Len(phases)
        IN  /\ n <= 4 + Len(metrics) + 1
            /\ \A i \in 1..n :
                  /\ i <= 4 => phases[i] = core[i]
                  /\ (i > 4 /\ i <= 4 + Len(metrics)) => phases[i] = "metric"
                  /\ i = 4 + Len(metrics) + 1 => phases[i] = "return"
            /\ (pc = "idle") => n = 4 + Len(metrics) + 1
            /\ (n < 4) => (w = snap.w /\ b = snap.b /\ metrics = snap.metrics)
            /\ (n < 3) => grads = <<0, 0>>
            /\ (n >= 4) => (w = snap.w - grads[1] /\ b = snap.b - grads[2])
            /\ (n >= 3) => grads = TapeGradient(data.x.rows, data.y.rows, y_pred)

\* A train_step has returned after an optimizer application that changed
\* the parameters.
C4_Witness ==
    /\ Returned("train")
    /\ <<w, b>> # <<snap.w, snap.b>>
    /\ metrics # snap.metrics

\* What update_state of metric i must have been given in the step.
ExpectedArg(i) ==
    IF snap.metrics[i].name = "loss" THEN <<loss>> ELSE <<data.y.rows, y_pred>>

\* C5: a train_step or test_step that returns has updated every metric of
\* self.metrics exactly once, the one named "loss" with the step's loss and
\* every other one with (y, y_pred) of the batch, and returns a mapping whose
\* keys are exactly the metrics' names and whose values are their results.
C5_MetricsUpdatedOnceByName ==
    (Returned("train") \/ Returned("test")) =>
        /\ Len(fed) = Len(metrics)
        /\ \A i \in 1..Len(fed) :
              /\ fed[i].name = metrics[i].name
              /\ fed[i].arg = ExpectedArg(i)
              /\ metrics[i].count = snap.metrics[i].count +
                    (IF metrics[i].name = "loss" THEN 1
                     ELSE Max(Len(data.y.rows), Len(y_pred)))
              /\ metrics[i].total = snap.metrics[i].total +
                    (IF metrics[i].name = "loss" THEN loss
                     ELSE Matches(data.y.rows, y_pred))
        /\ Keys(ret) = Names(metrics)
        /\ \A i \in 1..Len(metrics) :
              DictGet(ret, metrics[i].name) = Result(metrics[i])

\* A step over three metrics has returned: the loss tracker took a loss that
\* is not zero and the other two took the batch.
C5_Witness ==
    /\ Returned("test")
    /\ Len(metrics) = 3 /\ Len(fed) = 3
    /\ loss # 0
    /\ Keys(ret) = {"loss", "binary_accuracy", "mean_io_u"}

\* C10: what a train_step feeds to its metrics and returns was computed
\* from the parameters the step started with: y_pred and the loss are those
\* of the one forward pass made before the optimizer application, also when
\* the updated parameters would predict otherwise.
C10_MetricsDescribePreUpdateParameters ==
    (call = "train" /\ Len(phases) >= 4) =>
        /\ y_pred = SimpleLayerCall(data.x.rows, snap.w, snap.b)
        /\ loss = SimpleLossCall(data.y.rows, y_pred).value
        /\ Cardinality({i \in 1..Len(phases) : phases[i] = "forward"}) = 1
        /\ \A i \in 1..Len(fed) :
              fed[i].arg = (IF fed[i].name = "loss" THEN <<loss>>
                            ELSE <<data.y.rows,
                                   SimpleLayerCall(data.x.rows, snap.w, snap.b)>>)

\* A train_step has returned whose update changed what the layer predicts
\* for the batch.
C10_Witness ==
    /\ Returned("train")
    /\ SimpleLayerCall(data.x.rows, w, b) # y_pred
    /\ SimpleLossCall(data.y.rows, SimpleLayerCall(data.x.rows, w, b)).value # loss

\* C2: a train_step that raises leaves the model as it found it: the
\* parameters and every metric accumulator are what they were when the step
\* began.
C2_FailedStepIsAtomic ==
    (call = "train" /\ pc = "raised") =>
        /\ w = snap.w /\ b = snap.b
        /\ metrics = snap.metrics

\* C3: on_batch_end given a mapping without "loss" prints nothing and raises
\* nothing; given one with "loss" it prints one line holding the batch index
\* and the loss; either way the parameters and the metrics stay as they were.
C3_MissingLossIsNoOp ==
    call = "callback" =>
        LET batch == fed[1].arg[1]
            logs == fed[1].arg[2]
        IN  /\ err = "none"
            /\ w = snap.w /\ b = snap.b /\ metrics = snap.metrics
            /\ IF logs.given /\ "loss" \in Keys(logs.map)
               THEN /\ Len(out) = snap.lines + 1
                    /\ Last(out) = <<"End of batch = ", batch, ", loss = ",
                                     DictGet(logs.map, "loss")>>
               ELSE Len(out) = snap.lines

\* C6: SimpleLoss.call never takes the logarithm of a non-positive number:
\* whatever y_pred is, inside [0, 1] or not, both logarithm arguments of
\* every element lie in [2 * epsilon, 1]; and for labels in [0, 1] every
\* element of bce and their mean are non-negative.
C6_LossNonNegative ==
    lossOut.done =>
        LET r == lossOut.result
            n == Len(lossIn.y_pred)
        IN  /\ r.finite
            /\ Len(r.terms) = n
            /\ \A i \in 1..n :
                  /\ r.terms[i].args[1] \in (2 * Eps)..Scale
                  /\ r.terms[i].args[2] \in (2 * Eps)..Scale
            /\ (\A i \in 1..n : lossIn.y_true[i] \in 0..Scale) =>
                  /\ \A i \in 1..n : r.terms[i].v >= 0
                  /\ r.value >= 0

\* The loss was called with labels in [0, 1] and a prediction outside
\* [0, 1] on either side, and is positive.
C6_Witness ==
    /\ lossOut.done
    /\ \A i \in 1..Len(lossIn.y_true) : lossIn.y_true[i] \in 0..Scale
    /\ \E i \in 1..Len(lossIn.y_pred) : lossIn.y_pred[i] > Scale
    /\ \E i \in 1..Len(lossIn.y_pred) : lossIn.y_pred[i] < 0
    /\ lossOut.result.value > 0

\* C7: every batch evaluate hands to test_step is made of x_test and y_test.
C7_EvaluateRunsOnTestSet ==
    call = "test" => (data.x.name = "x_test" /\ data.y.name = "y_test")

\* C8: every label of the training set, and so of every batch fit hands to
\* train_step, is 0 or 1.
C8_TrainingLabelsAreBinary ==
    /\ \A i \in 1..Len(y.rows) : y.rows[i] \in {0, Scale}
    /\ call = "train" =>
          \A i \in 1..Len(data.y.rows) : data.y.rows[i] \in {0, Scale}

TrainLog == SelectSeq(stepLog, LAMBDA r : r.call = "train")
TestLog == SelectSeq(stepLog, LAMBDA r : r.call = "test")

\* What C9 says of every state of the driver run.
C9_RunInvariant ==
    /\ err = "none" /\ pc # "raised"
    /\ applies <= 12
    /\ TestLog # <<>> => (applies = 12 /\ Len(TrainLog) = 12)
    /\ \A i \in 1..Len(TrainLog) :
          /\ TrainLog[i].epoch = ((i - 1) \div 4) + 1
          /\ TrainLog[i].rows = (IF i % 4 = 0 THEN 232 ELSE 256)
    /\ dpc = "done" =>
          /\ Len(TrainLog) = 12 /\ applies = 12
          /\ Len(TestLog) = Len(test_ds) /\ Len(TestLog) >= 1
          /\ "binary_accuracy" \in Keys(ret)
          /\ DictGet(ret, "binary_accuracy") \in 0..Scale

\* C9: the driver run never reaches an error and runs to completion: fit
\* makes 3 epochs of 4 train_step calls on 256, 256, 256 and 232 samples,
\* 12 optimizer applications in all and all before the first test_step,
\* evaluate makes finitely many test_step calls, and the binary accuracy
\* it returns lies in [0, 1].
C9_DriverRunsToCompletion == []C9_RunInvariant /\ <>(dpc = "done")

\* The run is complete after 12 optimizer applications, with an accuracy
\* that is neither 0 nor 1.
C9_Witness ==
    /\ dpc = "done" /\ applies = 12
    /\ DictGet(ret, "binary_accuracy") \in 1..(Scale - 1)

====
